---- MODULE Spec2Model ----
(***************************************************************************)
(* Model of the localization string analyzer (main.go):                     *)
(* one invocation of main over a small file system, translated statement   *)
(* by statement.  Text is a sequence of one-character strings, so that     *)
(* line splitting, trimming, the key/value pattern and path normalisation  *)
(* are computed the way the Go standard library computes them.             *)
(***************************************************************************)
EXTENDS Integers, Sequences, FiniteSets, TLC

\* ------------------------------------------------------------------ bounds
\* number of text chunks an input file is assembled from
MaxChunks == 3
\* number of Fprintln calls to the clean file that may fail in one run
MaxWriteFaults == 1

\* --------------------------------------------------------------- characters
Q == "\""
LF == "\n"
CR == "\r"
SP == " "
SL == "/"
DOT == "."

\* ------------------------------------------------------------ strings (Go)
\* unicode.IsSpace restricted to the characters of the model's alphabet
IsSpace(c) == c \in {" ", "\t", "\n", "\r", "\f"}

\* the class \s of Go's regexp syntax: [\t\n\f\r ]
IsReSpace(c) == c \in {"\t", "\n", "\f", "\r", " "}

RECURSIVE TrimLeft(_)
TrimLeft(s) ==
    IF s = <<>> \/ ~IsSpace(Head(s)) THEN s ELSE TrimLeft(Tail(s))

RECURSIVE TrimRight(_)
TrimRight(s) ==
    IF s = <<>> \/ ~IsSpace(s[Len(s)]) THEN s
    ELSE TrimRight(SubSeq(s, 1, Len(s) - 1))

\* strings.TrimSpace
TrimSpace(s) == TrimRight(TrimLeft(s))

\* strings.HasPrefix
HasPrefix(s, p) == Len(s) >= Len(p) /\ SubSeq(s, 1, Len(p)) = p

\* strings.HasSuffix
HasSuffix(s, p) ==
    Len(s) >= Len(p) /\ SubSeq(s, Len(s) - Len(p) + 1, Len(s)) = p

\* strings.TrimSuffix
TrimSuffix(s, p) ==
    IF HasSuffix(s, p) THEN SubSeq(s, 1, Len(s) - Len(p)) ELSE s

\* index of the last occurrence of character c in s, 0 when there is none
RECURSIVE LastIndex(_, _)
LastIndex(s, c) ==
    IF s = <<>> THEN 0
    ELSE IF s[Len(s)] = c THEN Len(s)
    ELSE LastIndex(SubSeq(s, 1, Len(s) - 1), c)

\* index of the first occurrence of character c in s at or after j, 0 if none
RECURSIVE IndexFrom(_, _, _)
IndexFrom(s, c, j) ==
    IF j > Len(s) THEN 0
    ELSE IF s[j] = c THEN j
    ELSE IndexFrom(s, c, j + 1)

\* strconv.Itoa for naturals (the %d verb)
Digits == <<"0", "1", "2", "3", "4", "5", "6", "7", "8", "9">>

RECURSIVE Itoa(_)
Itoa(n) ==
    IF n < 10 THEN <<Digits[n + 1]>>
    ELSE Itoa(n \div 10) \o <<Digits[(n % 10) + 1]>>

\* strings.Compare on strings over the model's alphabet: bytewise order
Ord(c) ==
    CASE c = "\t" -> 9 [] c = "\n" -> 10 [] c = "\f" -> 12 [] c = "\r" -> 13
      [] c = " " -> 32 [] c = "\"" -> 34 [] c = "-" -> 45 [] c = "." -> 46
      [] c = "/" -> 47 [] c = "0" -> 48 [] c = "1" -> 49 [] c = "2" -> 50
      [] c = ";" -> 59 [] c = "=" -> 61 [] c = "a" -> 97 [] c = "b" -> 98
      [] OTHER -> 127

RECURSIVE StrLess(_, _)
StrLess(s, t) ==
    IF t = <<>> THEN FALSE
    ELSE IF s = <<>> THEN TRUE
    ELSE IF Head(s) = Head(t) THEN StrLess(Tail(s), Tail(t))
    ELSE Ord(Head(s)) < Ord(Head(t))

\* sort.Strings applied to the elements of a finite set of strings
RECURSIVE SortStrings(_)
SortStrings(S) ==
    IF S = {} THEN <<>>
    ELSE LET m == CHOOSE x \in S : \A y \in S \ {x} : StrLess(x, y)
         IN <<m>> \o SortStrings(S \ {m})

\* ------------------------------------------------- the key/value pattern
\* first position at or after j that holds no regexp white space
RECURSIVE SkipWs(_, _)
SkipWs(s, j) ==
    IF j > Len(s) \/ ~IsReSpace(s[j]) THEN j ELSE SkipWs(s, j + 1)

\* first position at or after j that holds a double quote (Len(s)+1 if none):
\* the end of the greedy run [^"]+ started at j
RECURSIVE RunEnd(_, _)
RunEnd(s, j) ==
    IF j > Len(s) \/ s[j] = Q THEN j ELSE RunEnd(s, j + 1)

\* the match of "([^"]+)"\s*=\s*"([^"]+)"\s*; anchored at position i:
\* <<whole, key, value>>, or <<>> when the pattern does not match there
MatchAt(s, i) ==
    LET k1 == RunEnd(s, i + 1)
        e  == SkipWs(s, k1 + 1)
        q2 == SkipWs(s, e + 1)
        k2 == RunEnd(s, q2 + 1)
        sc == SkipWs(s, k2 + 1)
    IN IF /\ i <= Len(s) /\ s[i] = Q
          /\ k1 > i + 1 /\ k1 <= Len(s)
          /\ e <= Len(s) /\ s[e] = "="
          /\ q2 <= Len(s) /\ s[q2] = Q
          /\ k2 > q2 + 1 /\ k2 <= Len(s)
          /\ sc <= Len(s) /\ s[sc] = ";"
       THEN <<SubSeq(s, i, sc), SubSeq(s, i + 1, k1 - 1), SubSeq(s, q2 + 1, k2 - 1)>>
       ELSE <<>>

RECURSIVE FindFrom(_, _)
FindFrom(s, i) ==
    IF i > Len(s) THEN <<>>
    ELSE IF MatchAt(s, i) # <<>> THEN MatchAt(s, i)
    ELSE FindFrom(s, i + 1)

\* kvPattern.FindStringSubmatch(line): the leftmost match, nil (<<>>) if none
FindStringSubmatch(line) == FindFrom(line, 1)

\* the test both scanners apply first: blank or comment line
IsCommentOrBlank(line) ==
    TrimSpace(line) = <<>> \/ HasPrefix(TrimSpace(line), <<SL, SL>>)

\* ------------------------------------------------------------ line I/O
\* bufio.ScanLines' dropCR
DropCR(data) ==
    IF Len(data) > 0 /\ data[Len(data)] = CR
    THEN SubSeq(data, 1, Len(data) - 1) ELSE data

\* every token bufio.Scanner yields for the content with the ScanLines split
RECURSIVE ScanLines(_)
ScanLines(data) ==
    IF data = <<>> THEN <<>>
    ELSE LET i == IndexFrom(data, LF, 1)
         IN IF i > 0
            THEN <<DropCR(SubSeq(data, 1, i - 1))>>
                     \o ScanLines(SubSeq(data, i + 1, Len(data)))
            ELSE <<DropCR(data)>>

\* what fmt.Fprintln(w, line) writes
Println(line) == line \o <<LF>>

\* ------------------------------------------------------- path/filepath
RECURSIVE SplitPath(_)
\* the non-empty elements of a slash-separated path
SplitPath(p) ==
    IF p = <<>> THEN <<>>
    ELSE LET i == IndexFrom(p, SL, 1)
         IN IF i = 0 THEN <<p>>
            ELSE IF i = 1 THEN SplitPath(Tail(p))
            ELSE <<SubSeq(p, 1, i - 1)>> \o SplitPath(SubSeq(p, i + 1, Len(p)))

RECURSIVE JoinElems(_)
JoinElems(es) ==
    IF es = <<>> THEN <<>>
    ELSE IF Len(es) = 1 THEN es[1]
    ELSE es[1] \o <<SL>> \o JoinElems(Tail(es))

\* the element stack of filepath.Clean after reading the elements es
RECURSIVE CleanStack(_, _, _)
CleanStack(es, stack, rooted) ==
    IF es = <<>> THEN stack
    ELSE LET e == Head(es)
         IN IF e = <<DOT>> THEN CleanStack(Tail(es), stack, rooted)
            ELSE IF e = <<DOT, DOT>>
            THEN IF stack # <<>> /\ stack[Len(stack)] # <<DOT, DOT>>
                 THEN CleanStack(Tail(es), SubSeq(stack, 1, Len(stack) - 1), rooted)
                 ELSE IF rooted THEN CleanStack(Tail(es), stack, rooted)
                 ELSE CleanStack(Tail(es), Append(stack, e), rooted)
            ELSE CleanStack(Tail(es), Append(stack, e), rooted)

\* filepath.Clean
Clean(p) ==
    LET rooted == p # <<>> /\ p[1] = SL
        body   == JoinElems(CleanStack(SplitPath(p), <<>>, rooted))
    IN IF rooted THEN <<SL>> \o body
       ELSE IF body = <<>> THEN <<DOT>> ELSE body

\* filepath.Dir
Dir(p) == Clean(SubSeq(p, 1, LastIndex(p, SL)))

RECURSIVE StripSlashes(_)
StripSlashes(p) ==
    IF p # <<>> /\ p[Len(p)] = SL
    THEN StripSlashes(SubSeq(p, 1, Len(p) - 1)) ELSE p

\* filepath.Base
Base(p) ==
    IF p = <<>> THEN <<DOT>>
    ELSE LET t == StripSlashes(p)
             r == SubSeq(t, LastIndex(t, SL) + 1, Len(t))
         IN IF r = <<>> THEN <<SL>> ELSE r

\* filepath.Ext
Ext(p) ==
    LET d == LastIndex(p, DOT)
    IN IF d > 0 /\ d > LastIndex(p, SL) THEN SubSeq(p, d, Len(p)) ELSE <<>>

\* filepath.Join(dir, name)
Join(dir, name) ==
    IF dir = <<>> /\ name = <<>> THEN <<>>
    ELSE IF dir = <<>> THEN Clean(name)
    ELSE Clean(dir \o <<SL>> \o name)

\* ------------------------------------------------------------ the inputs
\* "a"="1"; and a line feed
EntryA1 == <<Q, "a", Q, "=", Q, "1", Q, ";", LF>>
\* "a" = "2"; with blanks around the equals sign and a CR LF line ending
EntryA2 == <<Q, "a", Q, SP, "=", SP, Q, "2", Q, ";", CR, LF>>
\* "b"="1";"a"="2"; two patterns on one line, followed by a stray carriage
\* return and a CR LF line ending
EntryB == <<Q, "b", Q, "=", Q, "1", Q, ";", Q, "a", Q, "=", Q, "2", Q, ";",
            CR, CR, LF>>
\* a blank line, then an indented comment that holds an entry pattern
Comment == <<SP, LF, SP, SL, SL, Q, "a", Q, "=", Q, "1", Q, ";", LF>>
\* "a"="1" with neither semicolon nor line ending: an unrecognized last line,
\* or the head of a longer line when another chunk follows
NoSemi == <<Q, "a", Q, "=", Q, "1", Q>>

Chunks == {EntryA1, EntryA2, EntryB, Comment, NoSemi}

RECURSIVE Concat(_)
Concat(ss) == IF ss = <<>> THEN <<>> ELSE Head(ss) \o Concat(Tail(ss))

\* the file contents the model starts from
Contents ==
    {Concat(cs) : cs \in UNION {[1..n -> Chunks] : n \in 0..MaxChunks}}

\* the working directory of the process
Cwd == <<SL, "w">>

\* the file a path names: the kernel resolves a relative path against Cwd
Abs(p) == IF p # <<>> /\ p[1] = SL THEN Clean(p) ELSE Clean(Cwd \o <<SL>> \o p)

PathL == <<"L", DOT, "s">>
PathDotL == <<DOT, SL, "L", DOT, "s">>
PathAbsL == <<SL, "w", SL, "L", DOT, "s">>
PathR == <<"R", DOT, "t">>
PathC == <<"C", DOT, "s">>
PathSubC == <<"o", SL, "C", DOT, "s">>
PathC2 == <<"C", "2", DOT, "s">>

Cmd(f, o, c, v) == [f |-> f, o |-> o, c |-> c, v |-> v]

\* the command lines the model runs: -f, -o, -clean, -v
Invocations ==
    { Cmd(PathL, <<>>, <<>>, FALSE),
      Cmd(PathL, PathR, <<>>, FALSE),
      Cmd(PathL, <<>>, PathC, TRUE),
      Cmd(PathL, <<>>, PathSubC, FALSE),
      Cmd(PathL, <<>>, PathL, FALSE),
      Cmd(PathL, PathR, PathDotL, FALSE),
      Cmd(PathL, <<>>, PathAbsL, FALSE),
      Cmd(PathL, PathL, <<>>, FALSE),
      Cmd(PathDotL, PathR, PathC, TRUE),
      Cmd(PathL, PathC, PathC, FALSE) }

\* ------------------------------------------------------------ the state
VARIABLES
    files,          \* the file system: absolute path -> content
    dirs,           \* the directories that exist
    inputFile,      \* -f
    outputFile,     \* -o
    cleanFile,      \* -clean
    verbose,        \* -v
    pc,             \* where main is; "counted" when count_keys ran instead
    exitCode,       \* -1 while running, then the exit status
    stdout,         \* what was printed to the terminal
    output,         \* main's output: "none", "stdout" or "file"
    analyzeErr,     \* err of analyzeLocalizationFile: "nil", "open", "scan"
    toRead,         \* the lines the scanner has not yet returned
    lineNum,        \* analyzeLocalizationFile's line counter
    keyEntries,     \* key -> all its entries
    duplicateKeys,  \* key -> all its entries, keys seen twice or more
    uniqueEntries,  \* key -> its first entry
    rawLines,       \* the lines read
    reported,       \* the groups of the duplicate report, as written
    suggestedName,  \* main's suggestion when it rejects the clean path
    cleanErr,       \* err of createCleanFile: "notcalled", "nil", "mkdir", "create"
    writtenKeys,    \* createCleanFile's set of keys written
    idx,            \* createCleanFile's position in rawLines
    emitted,        \* the lines createCleanFile passed to Fprintln
    opened,         \* the files this run opened for writing
    startFiles,     \* the file system when the run started
    startDirs,      \* the directories when the run started
    wfaults,        \* failed writes to the clean file in this run
    runs,           \* invocations so far: 1, then 2 for the run on the clean file
    keyCount,       \* count_keys: the number of unique keys, -1 before it ran
    totalEntries,   \* count_keys: the number of entries, -1 before it ran
    countErr,       \* count_keys: err of countKeys: "notrun", "nil", "open", "scan"
    countOut        \* count_keys: what it printed

vars == <<files, dirs, inputFile, outputFile, cleanFile, verbose, pc, exitCode,
          stdout, output, analyzeErr, toRead, lineNum, keyEntries,
          duplicateKeys, uniqueEntries, rawLines, reported, suggestedName,
          cleanErr, writtenKeys, idx, emitted, opened, startFiles, startDirs, wfaults, runs,
          keyCount, totalEntries, countErr, countOut>>

flags == <<inputFile, outputFile, cleanFile, verbose>>
analysis == <<toRead, lineNum, keyEntries, duplicateKeys, uniqueEntries, rawLines>>
cleaner == <<writtenKeys, idx, emitted, wfaults>>
counter == <<keyCount, totalEntries, countErr, countOut>>

\* count_keys has not been run
NotCounted ==
    /\ keyCount = -1
    /\ totalEntries = -1
    /\ countErr = "notrun"
    /\ countOut = <<>>

EmptyMap == <<>>

\* the content of the file a path names, <<>> when there is none
ContentOf(fs, p) == IF Abs(p) \in DOMAIN fs THEN fs[Abs(p)] ELSE <<>>

\* the state of a process that has parsed its flags
Started(inv) ==
    /\ inputFile = inv.f
    /\ outputFile = inv.o
    /\ cleanFile = inv.c
    /\ verbose = inv.v
    /\ pc = "start"
    /\ exitCode = -1
    /\ stdout = <<>>
    /\ output = "none"
    /\ analyzeErr = "nil"
    /\ toRead = <<>>
    /\ lineNum = 0
    /\ keyEntries = EmptyMap
    /\ duplicateKeys = EmptyMap
    /\ uniqueEntries = EmptyMap
    /\ rawLines = <<>>
    /\ reported = <<>>
    /\ suggestedName = <<>>
    /\ cleanErr = "notcalled"
    /\ writtenKeys = {}
    /\ idx = 0
    /\ emitted = <<>>
    /\ opened = {}
    /\ wfaults = 0

Init ==
    /\ \E content \in Contents : files = (Abs(PathL) :> content)
    /\ dirs = {<<SL>>, Cwd}
    /\ \E inv \in Invocations : Started(inv)
    /\ startFiles = files
    /\ startDirs = dirs
    /\ runs = 1
    /\ NotCounted

\* os.Create(p) can succeed: the parent directory exists, p is no directory
CanCreate(p) == p # <<>> /\ Dir(Abs(p)) \in dirs /\ Abs(p) \notin dirs

\* the file system after os.Create(p): p exists and is empty
Created(fs, p) == (Abs(p) :> <<>>) @@ fs

\* the file system after appending text to the open file p
Appended(fs, p, text) == [fs EXCEPT ![Abs(p)] = @ \o text]

\* os.Exit(1)
Exit1 == pc' = "exit" /\ exitCode' = 1

\* what main prints when it gives up with err (lines 39, 50, 113)
ErrorLine(what, err) == <<what, err, LF>>

\* ------------------------------------------------- main: set up output
\* lines 34-45, os.Create succeeds or -o was not given
SetUpOutput ==
    /\ pc = "start"
    /\ IF outputFile # <<>>
       THEN /\ CanCreate(outputFile)
            /\ files' = Created(files, outputFile)
            /\ opened' = opened \cup {Abs(outputFile)}
            /\ output' = "file"
       ELSE /\ output' = "stdout"
            /\ UNCHANGED <<files, opened>>
    /\ pc' = "analyze"
    /\ UNCHANGED <<dirs, flags, exitCode, stdout, analyzeErr, analysis, reported,
                   suggestedName, cleanErr, cleaner, startFiles, startDirs, runs, counter>>

\* lines 36-41, os.Create fails (no such directory, permission denied, ...)
SetUpOutputFail ==
    /\ pc = "start"
    /\ outputFile # <<>>
    /\ stdout' = stdout \o ErrorLine("Error creating output file: ", "create")
    /\ Exit1
    /\ UNCHANGED <<files, dirs, flags, output, analyzeErr, analysis, reported,
                   suggestedName, cleanErr, cleaner, opened, startFiles, startDirs, runs, counter>>

\* ------------------------------------------------ analyzeLocalizationFile
\* the entry of a matching line (lines 250-258)
Entry(m, n) == [Key |-> m[2], Value |-> m[3], LineNum |-> n]

\* StoreFirst without the test of line 261: the last occurrence wins
StoreFirstOverwrite(uniq, entry) == (entry.Key :> entry) @@ uniq

\* lines 260-263: store the first occurrence in uniqueEntries
StoreFirst(uniq, entry) ==
    IF entry.Key \in DOMAIN uniq THEN uniq ELSE (entry.Key :> entry) @@ uniq

\* AppendEntry without the append: the new entry replaces the key's entries
AppendEntryReplace(ke, entry) == (entry.Key :> <<entry>>) @@ ke

\* line 265: keyEntries[key] = append(keyEntries[key], entry)
AppendEntry(ke, entry) ==
    LET old == IF entry.Key \in DOMAIN ke THEN ke[entry.Key] ELSE <<>>
    IN (entry.Key :> Append(old, entry)) @@ ke

\* NoteDuplicate with == 2 for > 1: the group is stored once and never again
NoteDuplicateOnce(dup, ke, key) ==
    IF Len(ke[key]) = 2 THEN (key :> ke[key]) @@ dup ELSE dup

\* lines 267-270: more than one entry for the key makes it a duplicate
NoteDuplicate(dup, ke, key) ==
    IF Len(ke[key]) > 1 THEN (key :> ke[key]) @@ dup ELSE dup

\* lines 212-235, os.Open succeeds: the scanner will yield the file's lines
AnalyzeOpen ==
    /\ pc = "analyze"
    /\ Abs(inputFile) \in DOMAIN files
    /\ toRead' = ScanLines(files[Abs(inputFile)])
    /\ lineNum' = 0
    /\ keyEntries' = EmptyMap
    /\ duplicateKeys' = EmptyMap
    /\ uniqueEntries' = EmptyMap
    /\ rawLines' = <<>>
    /\ pc' = "scan"
    /\ UNCHANGED <<files, dirs, flags, exitCode, stdout, output, analyzeErr,
                   reported, suggestedName, cleanErr, cleaner, opened, startFiles, startDirs,
                   runs, counter>>

\* lines 212-215 and 49-52: os.Open fails, nothing is returned, main exits
AnalyzeOpenFail ==
    /\ pc = "analyze"
    /\ analyzeErr' = "open"
    /\ stdout' = stdout \o ErrorLine("Error: ", "failed to open file")
    /\ Exit1
    /\ UNCHANGED <<files, dirs, flags, output, analysis, reported, suggestedName,
                   cleanErr, cleaner, opened, startFiles, startDirs, runs, counter>>

\* lines 237-272: one turn of the scanning loop
ScanLine ==
    /\ pc = "scan"
    /\ toRead # <<>>
    /\ LET line == Head(toRead)
           n    == lineNum + 1
           m    == FindStringSubmatch(line)
       IN /\ lineNum' = n
          /\ rawLines' = Append(rawLines, line)
          /\ toRead' = Tail(toRead)
          /\ IF ~IsCommentOrBlank(line) /\ Len(m) = 3
             THEN LET entry == Entry(m, n)
                      ke    == AppendEntry(keyEntries, entry)
                  IN /\ uniqueEntries' = StoreFirst(uniqueEntries, entry)
                     /\ keyEntries' = ke
                     /\ duplicateKeys' = NoteDuplicate(duplicateKeys, ke, entry.Key)
             ELSE UNCHANGED <<keyEntries, duplicateKeys, uniqueEntries>>
    /\ UNCHANGED <<files, dirs, flags, pc, exitCode, stdout, output, analyzeErr,
                   reported, suggestedName, cleanErr, cleaner, opened, startFiles, startDirs,
                   runs, counter>>

\* ScanError returning what was built so far beside the error
ScanErrorKeepsPartial ==
    /\ pc = "scan"
    /\ analyzeErr' = "scan"
    /\ stdout' = stdout \o ErrorLine("Error: ", "error scanning file")
    /\ Exit1
    /\ UNCHANGED <<files, dirs, flags, output, analysis, reported, suggestedName,
                   cleanErr, cleaner, opened, startFiles, startDirs, runs, counter>>

\* lines 274-276 and 49-52: the scanner stops on a read error; nil maps and
\* nil lines are returned with the error, and main exits
ScanError ==
    /\ pc = "scan"
    /\ analyzeErr' = "scan"
    /\ toRead' = <<>>
    /\ keyEntries' = EmptyMap
    /\ duplicateKeys' = EmptyMap
    /\ uniqueEntries' = EmptyMap
    /\ rawLines' = <<>>
    /\ stdout' = stdout \o ErrorLine("Error: ", "error scanning file")
    /\ Exit1
    /\ UNCHANGED <<files, dirs, flags, output, lineNum, reported, suggestedName,
                   cleanErr, cleaner, opened, startFiles, startDirs, runs, counter>>

\* lines 274-278: end of file, the three results are returned
ScanDone ==
    /\ pc = "scan"
    /\ toRead = <<>>
    /\ keyEntries' = EmptyMap
    /\ pc' = "report"
    /\ UNCHANGED <<files, dirs, flags, exitCode, stdout, output, analyzeErr,
                   toRead, lineNum, duplicateKeys, uniqueEntries, rawLines,
                   reported, suggestedName, cleanErr, cleaner, opened, startFiles, startDirs,
                   runs, counter>>

\* ------------------------------------------------- main: the report
\* AllSame looking at the second entry only
AllSameSecondOnly(entries) == entries[2].Value = entries[1].Value

\* lines 70-78: are all values the same as the first?
AllSame(entries) ==
    \A i \in 2..Len(entries) : entries[i].Value = entries[1].Value

\* lines 66-95: what main writes for one duplicate key
ReportGroup(key, entries) ==
    [key |-> key,
     count |-> Len(entries),
     allSame |-> AllSame(entries),
     firstValue |-> entries[1].Value,
     lines |-> [i \in 1..Len(entries) |->
                  [LineNum |-> entries[i].LineNum,
                   withValue |-> ~AllSame(entries),
                   Value |-> entries[i].Value]]]

\* lines 59-64: the duplicate keys, sorted
SortedKeys(dup) == SortStrings(DOMAIN dup)

\* lines 86-93: the "Found at lines" list
RECURSIVE RenderLines(_)
RenderLines(ls) ==
    IF ls = <<>> THEN <<>>
    ELSE LET l == Head(ls)
         IN <<"    Line ">> \o Itoa(l.LineNum)
              \o (IF l.withValue THEN <<": \"">> \o l.Value \o <<Q>> ELSE <<>>)
              \o <<LF>> \o RenderLines(Tail(ls))

\* lines 68-94: the text of one group
RenderGroup(g) ==
    <<"Key: \"">> \o g.key \o <<"\" appears ">> \o Itoa(g.count)
      \o <<" times:", LF>>
      \o (IF g.allSame
          THEN <<"  All entries have the same value: \"">> \o g.firstValue \o <<Q, LF>>
          ELSE <<"  WARNING: Key has different values (localization conflict)!", LF>>)
      \o <<"  Found at lines:", LF>>
      \o RenderLines(g.lines)
      \o <<LF>>

RECURSIVE RenderGroups(_)
RenderGroups(gs) ==
    IF gs = <<>> THEN <<>> ELSE RenderGroup(Head(gs)) \o RenderGroups(Tail(gs))

\* lines 55-98: the text of the report
RenderReport(gs) ==
    IF Len(gs) > 0
    THEN <<"Duplicate keys found: ">> \o Itoa(Len(gs))
           \o <<LF, "====================", LF>> \o RenderGroups(gs)
    ELSE <<"No duplicate keys found.", LF>>

\* lines 55-98: the report goes to output
Report ==
    /\ pc = "report"
    /\ LET keys   == SortedKeys(duplicateKeys)
           groups == [i \in 1..Len(keys) |->
                        ReportGroup(keys[i], duplicateKeys[keys[i]])]
       IN /\ reported' = groups
          /\ IF output = "file"
             THEN /\ files' = Appended(files, outputFile, RenderReport(groups))
                  /\ UNCHANGED stdout
             ELSE /\ stdout' = stdout \o RenderReport(groups)
                  /\ UNCHANGED files
    /\ pc' = "clean"
    /\ UNCHANGED <<dirs, flags, exitCode, output, analyzeErr, analysis,
                   suggestedName, cleanErr, cleaner, opened, startFiles, startDirs, runs, counter>>

\* ------------------------------------------------- main: the clean file
CleanedSuffix == <<"-", "c", "l", "e", "a", "n", "e", "d">>

\* lines 139-146
createUniqueFilename(filename) ==
    LET dir            == Dir(filename)
        base           == Base(filename)
        ext            == Ext(filename)
        nameWithoutExt == TrimSuffix(base, ext)
    IN Join(dir, nameWithoutExt \o CleanedSuffix \o ext)

RECURSIVE SumExtra(_, _)
SumExtra(keys, dup) ==
    IF keys = {} THEN 0
    ELSE LET k == CHOOSE x \in keys : TRUE
         IN (Len(dup[k]) - 1) + SumExtra(keys \ {k}, dup)

\* countDuplicates with count++ for count += len(entries) - 1: one per group
countDuplicatesPerGroup(dup) == Cardinality(DOMAIN dup)

\* lines 148-154
countDuplicates(dup) == SumExtra(DOMAIN dup, dup)

\* SamePath without filepath.Clean
SamePathRaw(clean, input) == clean = input

\* line 103: the clean path is the input path
SamePath(clean, input) == Clean(clean) = Clean(input)

\* line 101: no -clean
CleanSkip ==
    /\ pc = "clean"
    /\ cleanFile = <<>>
    /\ pc' = "summary"
    /\ UNCHANGED <<files, dirs, flags, exitCode, stdout, output, analyzeErr,
                   analysis, reported, suggestedName, cleanErr, cleaner, opened,
                   startFiles, startDirs, runs, counter>>

\* lines 101-109: the clean path is the input path, main refuses and exits
CleanReject ==
    /\ pc = "clean"
    /\ cleanFile # <<>>
    /\ SamePath(cleanFile, inputFile)
    /\ suggestedName' = createUniqueFilename(inputFile)
    /\ stdout' = stdout
                   \o <<"Error: Clean file cannot be the same as input file.", LF,
                        "Please use a different filename, e.g., '">>
                   \o createUniqueFilename(inputFile) \o <<"'", LF>>
    /\ Exit1
    /\ UNCHANGED <<files, dirs, flags, output, analyzeErr, analysis, reported,
                   cleanErr, cleaner, opened, startFiles, startDirs, runs, counter>>

\* the directories os.MkdirAll(d) makes sure of: d and those above it
RECURSIVE Ancestors(_)
Ancestors(d) == IF d = <<SL>> THEN {d} ELSE {d} \cup Ancestors(Dir(d))

\* line 159: createCleanFile makes the directory of filename
NeedsMkdir(filename) == Dir(filename) # <<DOT>> /\ Dir(filename) # <<>>

\* the directories after lines 158-163
DirsAfterMkdir(ds, filename) ==
    IF NeedsMkdir(filename) THEN ds \cup Ancestors(Abs(Dir(filename))) ELSE ds

\* lines 111-115 with 158-162: os.MkdirAll fails, main exits
CleanMkdirFail ==
    /\ pc = "clean"
    /\ cleanFile # <<>>
    /\ ~SamePath(cleanFile, inputFile)
    /\ NeedsMkdir(cleanFile)
    /\ cleanErr' = "mkdir"
    /\ stdout' = stdout \o ErrorLine("Error creating clean file: ",
                                     "failed to create directory")
    /\ Exit1
    /\ UNCHANGED <<files, dirs, flags, output, analyzeErr, analysis, reported,
                   suggestedName, cleaner, opened, startFiles, startDirs, runs, counter>>

\* lines 111-115 with 158-168: os.Create fails, main exits
CleanCreateFail ==
    /\ pc = "clean"
    /\ cleanFile # <<>>
    /\ ~SamePath(cleanFile, inputFile)
    /\ dirs' = DirsAfterMkdir(dirs, cleanFile)
    /\ cleanErr' = "create"
    /\ stdout' = stdout \o ErrorLine("Error creating clean file: ",
                                     "failed to create clean file")
    /\ Exit1
    /\ UNCHANGED <<files, flags, output, analyzeErr, analysis, reported,
                   suggestedName, cleaner, opened, startFiles, startDirs, runs, counter>>

\* lines 156-173: the directory is there and the clean file is created
CleanCreate ==
    /\ pc = "clean"
    /\ cleanFile # <<>>
    /\ ~SamePath(cleanFile, inputFile)
    /\ dirs' = DirsAfterMkdir(dirs, cleanFile)
    /\ Abs(cleanFile) \notin dirs'
    /\ files' = Created(files, cleanFile)
    /\ opened' = opened \cup {Abs(cleanFile)}
    /\ writtenKeys' = {}
    /\ idx' = 1
    /\ emitted' = <<>>
    /\ pc' = "cleaning"
    /\ UNCHANGED <<flags, exitCode, stdout, output, analyzeErr, analysis,
                   reported, suggestedName, cleanErr, wfaults, startFiles, startDirs, runs, counter>>

\* CleanStep without line 194: no key is ever marked as written
CleanStepNoMark(line, written) ==
    [emit |-> TRUE, written |-> written]

\* CleanStep without the else branch of lines 197-200
CleanStepDropsOther(line, written) ==
    IF IsCommentOrBlank(line)
    THEN [emit |-> TRUE, written |-> written]
    ELSE LET matches == FindStringSubmatch(line)
         IN IF Len(matches) = 3
            THEN IF matches[2] \notin written
                 THEN [emit |-> TRUE, written |-> written \cup {matches[2]}]
                 ELSE [emit |-> FALSE, written |-> written]
            ELSE [emit |-> FALSE, written |-> written]

\* CleanStep flipping writtenKeys[key] at every sighting of the key
CleanStepToggle(line, written) ==
    IF IsCommentOrBlank(line)
    THEN [emit |-> TRUE, written |-> written]
    ELSE LET matches == FindStringSubmatch(line)
         IN IF Len(matches) = 3
            THEN IF matches[2] \notin written
                 THEN [emit |-> TRUE, written |-> written \cup {matches[2]}]
                 ELSE [emit |-> FALSE, written |-> written \ {matches[2]}]
            ELSE [emit |-> TRUE, written |-> written]

\* lines 176-200: what the loop does with one line, given the keys written:
\* whether it prints the line, and the keys written afterwards
CleanStep(line, written) ==
    IF IsCommentOrBlank(line)
    THEN [emit |-> TRUE, written |-> written]
    ELSE LET matches == FindStringSubmatch(line)
         IN IF Len(matches) = 3
            THEN IF matches[2] \notin written
                 THEN [emit |-> TRUE, written |-> written \cup {matches[2]}]
                 ELSE [emit |-> FALSE, written |-> written]
            ELSE [emit |-> TRUE, written |-> written]

\* lines 175-201: one turn of the loop; Fprintln writes the line
CleanLine ==
    /\ pc = "cleaning"
    /\ idx <= Len(rawLines)
    /\ LET line == rawLines[idx]
           r    == CleanStep(line, writtenKeys)
       IN /\ writtenKeys' = r.written
          /\ IF r.emit
             THEN /\ emitted' = Append(emitted, line)
                  /\ files' = Appended(files, cleanFile, Println(line))
             ELSE UNCHANGED <<emitted, files>>
    /\ idx' = idx + 1
    /\ UNCHANGED <<dirs, flags, pc, exitCode, stdout, output, analyzeErr,
                   analysis, reported, suggestedName, cleanErr, wfaults, opened,
                   startFiles, startDirs, runs, counter>>

\* lines 175-201: one turn of the loop in which Fprintln fails (disk full,
\* I/O error); its error is not looked at and the loop goes on
CleanLineWriteFails ==
    /\ pc = "cleaning"
    /\ idx <= Len(rawLines)
    /\ wfaults < MaxWriteFaults
    /\ LET line == rawLines[idx]
           r    == CleanStep(line, writtenKeys)
       IN /\ r.emit
          /\ writtenKeys' = r.written
          /\ emitted' = Append(emitted, line)
    /\ wfaults' = wfaults + 1
    /\ idx' = idx + 1
    /\ UNCHANGED <<files, dirs, flags, pc, exitCode, stdout, output, analyzeErr,
                   analysis, reported, suggestedName, cleanErr, opened,
                   startFiles, startDirs, runs, counter>>

\* lines 203 and 111-117: createCleanFile returns nil, main reports the file
CleanFinish ==
    /\ pc = "cleaning"
    /\ idx > Len(rawLines)
    /\ cleanErr' = "nil"
    /\ stdout' = stdout \o <<"Created cleaned file at ">> \o cleanFile
                   \o <<LF, "Removed ">> \o Itoa(countDuplicates(duplicateKeys))
                   \o <<" duplicate key entries.", LF>>
    /\ pc' = "summary"
    /\ UNCHANGED <<files, dirs, flags, exitCode, output, analyzeErr, analysis,
                   reported, suggestedName, cleaner, opened, startFiles, startDirs, runs, counter>>

\* ------------------------------------------------- main: the summary
\* lines 120-136
SummaryText ==
    IF outputFile # <<>> \/ verbose
    THEN IF Len(SortedKeys(duplicateKeys)) > 0
         THEN <<"Analysis complete. Found ">>
                \o Itoa(Len(SortedKeys(duplicateKeys)))
                \o <<" duplicate keys with ">>
                \o Itoa(countDuplicates(duplicateKeys))
                \o <<" total duplicated entries.", LF>>
                \o (IF outputFile # <<>>
                    THEN <<"Results written to ">> \o outputFile \o <<LF>>
                    ELSE <<>>)
                \o (IF cleanFile = <<>>
                    THEN <<"Use -clean=filename.strings to create a cleaned version with duplicates removed.", LF>>
                    ELSE <<>>)
         ELSE IF verbose THEN <<"No duplicate keys found.", LF>> ELSE <<>>
    ELSE <<>>

\* lines 120-137: main prints the summary and returns
Summary ==
    /\ pc = "summary"
    /\ stdout' = stdout \o SummaryText
    /\ pc' = "done"
    /\ exitCode' = 0
    /\ UNCHANGED <<files, dirs, flags, output, analyzeErr, analysis, reported,
                   suggestedName, cleanErr, cleaner, opened, startFiles, startDirs, runs, counter>>

\* ------------------------------------------------- the next invocation
\* the tool is run again, on the clean file it has just written in full, to
\* clean it into another file
Reinvoke ==
    /\ pc = "done"
    /\ cleanErr = "nil"
    /\ wfaults = 0
    /\ runs = 1
    /\ runs' = runs + 1
    /\ inputFile' = cleanFile
    /\ outputFile' = <<>>
    /\ cleanFile' = PathC2
    /\ verbose' = FALSE
    /\ pc' = "start"
    /\ exitCode' = -1
    /\ stdout' = <<>>
    /\ output' = "none"
    /\ analyzeErr' = "nil"
    /\ toRead' = <<>>
    /\ lineNum' = 0
    /\ keyEntries' = EmptyMap
    /\ duplicateKeys' = EmptyMap
    /\ uniqueEntries' = EmptyMap
    /\ rawLines' = <<>>
    /\ reported' = <<>>
    /\ suggestedName' = <<>>
    /\ cleanErr' = "notcalled"
    /\ writtenKeys' = {}
    /\ idx' = 0
    /\ emitted' = <<>>
    /\ opened' = {}
    /\ wfaults' = 0
    /\ startFiles' = files
    /\ startDirs' = dirs
    /\ UNCHANGED <<files, dirs, counter>>

\* ------------------------------------------------- count_keys
\* count_keys.go lines 63-78: the loop over the lines, with the set of keys
\* seen and the number of entries so far; line 84: what is returned
RECURSIVE countKeysLoop(_, _, _)
countKeysLoop(lines, uniqueKeys, total) ==
    IF lines = <<>>
    THEN [keyCount |-> Cardinality(uniqueKeys), totalEntries |-> total]
    ELSE LET line == Head(lines)
         IN IF IsCommentOrBlank(line)
            THEN countKeysLoop(Tail(lines), uniqueKeys, total)
            ELSE LET matches == FindStringSubmatch(line)
                 IN IF Len(matches) = 3
                    THEN countKeysLoop(Tail(lines), uniqueKeys \cup {matches[2]},
                                       total + 1)
                    ELSE countKeysLoop(Tail(lines), uniqueKeys, total)

\* count_keys.go lines 46-85, on a file that opens and reads without error
countKeys(data) == countKeysLoop(ScanLines(data), {}, 0)

\* count_keys.go lines 39-40: "%.1f" of duplicates / totalEntries * 100, the
\* nearest tenth (no quotient of the counts the model reaches lies halfway)
Percent1(duplicates, total) ==
    LET tenths == (2000 * duplicates + total) \div (2 * total)
    IN Itoa(tenths \div 10) \o <<DOT>> \o Itoa(tenths % 10)

\* count_keys.go lines 33-43: the report of the counts
CountKeysText(name, keys, total) ==
    <<"File: ">> \o name \o <<LF, "Total Entries: ">> \o Itoa(total)
      \o <<LF, "Unique Keys: ">> \o Itoa(keys) \o <<LF>>
      \o (IF total > keys
          THEN <<"Duplicate Entries: ">> \o Itoa(total - keys) \o <<" (">>
                 \o Percent1(total - keys, total) \o <<"%", ")", LF>>
          ELSE <<"No duplicate keys found.", LF>>)

\* count_keys.go lines 13-44: count_keys -f inputFile is run on the file, in
\* place of the analyzer, and prints the counts
CountKeys ==
    /\ pc = "start"
    /\ Abs(inputFile) \in DOMAIN files
    /\ LET r == countKeys(files[Abs(inputFile)])
       IN /\ keyCount' = r.keyCount
          /\ totalEntries' = r.totalEntries
          /\ countOut' = CountKeysText(inputFile, r.keyCount, r.totalEntries)
    /\ countErr' = "nil"
    /\ pc' = "counted"
    /\ exitCode' = 0
    /\ UNCHANGED <<files, dirs, flags, stdout, output, analyzeErr,
                   analysis, reported, suggestedName, cleanErr, cleaner, opened,
                   startFiles, startDirs, runs>>

\* count_keys.go lines 26-30 with 47-50 and 80-82: the file does not open, or
\* the scan ends on a read error; countKeys returns 0, 0 and the error, and
\* count_keys exits with status 1
CountKeysFail ==
    /\ pc = "start"
    /\ \E err \in {"open", "scan"} :
         /\ countErr' = err
         /\ countOut' = ErrorLine("Error: ",
                                  IF err = "open" THEN "failed to open file"
                                  ELSE "error scanning file")
    /\ keyCount' = 0
    /\ totalEntries' = 0
    /\ pc' = "counted"
    /\ exitCode' = 1
    /\ UNCHANGED <<files, dirs, flags, stdout, output, analyzeErr,
                   analysis, reported, suggestedName, cleanErr, cleaner, opened,
                   startFiles, startDirs, runs>>

Next ==
    \/ SetUpOutput
    \/ SetUpOutputFail
    \/ AnalyzeOpen
    \/ AnalyzeOpenFail
    \/ ScanLine
    \/ ScanError
    \/ ScanDone
    \/ Report
    \/ CleanSkip
    \/ CleanReject
    \/ CleanMkdirFail
    \/ CleanCreateFail
    \/ CleanCreate
    \/ CleanLine
    \/ CleanLineWriteFails
    \/ CleanFinish
    \/ Summary
    \/ Reinvoke
    \/ CountKeys
    \/ CountKeysFail

Spec == Init /\ [][Next]_vars

\* ------------------------------------------------------------ properties
\* The definitions below restate what the lines of a file mean, straight from
\* the file format, without the maps and sets the program keeps.

IsEntryLine(line) == ~IsCommentOrBlank(line) /\ FindStringSubmatch(line) # <<>>
IsOtherLine(line) == ~IsEntryLine(line)
KeyOf(line) == FindStringSubmatch(line)[2]
ValueOf(line) == FindStringSubmatch(line)[3]

\* the positions of the Entry lines
EntryPositions(lines) == {i \in 1..Len(lines) : IsEntryLine(lines[i])}

\* the distinct keys of the lines
KeysOf(lines) == {KeyOf(lines[i]) : i \in EntryPositions(lines)}

\* the occurrences of key among the first n lines, in line order
RECURSIVE OccurrencesUpTo(_, _, _)
OccurrencesUpTo(lines, key, n) ==
    IF n = 0 THEN <<>>
    ELSE LET before == OccurrencesUpTo(lines, key, n - 1)
         IN IF IsEntryLine(lines[n]) /\ KeyOf(lines[n]) = key
            THEN Append(before, [Key |-> key, Value |-> ValueOf(lines[n]),
                                 LineNum |-> n])
            ELSE before

Occurrences(lines, key) == OccurrencesUpTo(lines, key, Len(lines))

\* line i is an Entry whose key no earlier line has
IsFirstOfKey(lines, i) ==
    /\ IsEntryLine(lines[i])
    /\ \A j \in 1..(i - 1) :
         ~(IsEntryLine(lines[j]) /\ KeyOf(lines[j]) = KeyOf(lines[i]))

\* the first n lines without the Entry lines that repeat an earlier key
RECURSIVE WithoutRepeats(_, _)
WithoutRepeats(lines, n) ==
    IF n = 0 THEN <<>>
    ELSE IF IsOtherLine(lines[n]) \/ IsFirstOfKey(lines, n)
         THEN Append(WithoutRepeats(lines, n - 1), lines[n])
         ELSE WithoutRepeats(lines, n - 1)

\* the lines, among the first n, that the map of first entries points at
RECURSIVE LinesAtFirstEntries(_, _, _)
LinesAtFirstEntries(lines, uniq, n) ==
    IF n = 0 THEN <<>>
    ELSE IF /\ IsEntryLine(lines[n])
            /\ KeyOf(lines[n]) \in DOMAIN uniq
            /\ uniq[KeyOf(lines[n])].LineNum = n
         THEN Append(LinesAtFirstEntries(lines, uniq, n - 1), lines[n])
         ELSE LinesAtFirstEntries(lines, uniq, n - 1)

\* the bytes of a file made of these lines, each ended by a line feed
RECURSIVE FileOf(_)
FileOf(lines) ==
    IF lines = <<>> THEN <<>> ELSE Head(lines) \o <<LF>> \o FileOf(Tail(lines))

\* the Entry lines of lines have exactly the keys, each once
HasOneEntryPerKey(lines, keys) ==
    /\ KeysOf(lines) = keys
    /\ \A i, j \in EntryPositions(lines) :
         i # j => KeyOf(lines[i]) # KeyOf(lines[j])

\* createCleanFile has returned nil
CleanReturned == cleanErr = "nil"

\* analyzeLocalizationFile is scanning, or has just returned its result
Scanning == pc = "scan"
Analyzed == pc = "report"

\* C1: the Entry lines of the cleaned output are exactly one line per distinct
\* key of the input, none twice, and the line kept for a key is the line at
\* uniqueEntries[key].LineNum; with no failed write these are the lines of the
\* file on disk.
C1_OneEntryLinePerKey ==
    CleanReturned =>
        /\ HasOneEntryPerKey(emitted, KeysOf(rawLines))
        /\ SelectSeq(emitted, IsEntryLine)
             = LinesAtFirstEntries(rawLines, uniqueEntries, Len(rawLines))
        /\ (wfaults = 0 =>
              HasOneEntryPerKey(ScanLines(ContentOf(files, cleanFile)),
                                KeysOf(rawLines)))

\* C1 witness: a clean that returned after dropping a repeated key whose two
\* lines differ
C1_Witness ==
    /\ pc = "done"
    /\ CleanReturned
    /\ wfaults = 0
    /\ \E k \in DOMAIN duplicateKeys :
         /\ Len(duplicateKeys[k]) = 3
         /\ duplicateKeys[k][1].Value # duplicateKeys[k][2].Value
         /\ rawLines[duplicateKeys[k][1].LineNum] # rawLines[duplicateKeys[k][3].LineNum]

\* C2: the cleaned output is rawLines without the Entry lines whose key an
\* earlier line has: every other line is there, unchanged and in order.
C2_OnlyRepeatsOmitted ==
    CleanReturned =>
        /\ emitted = WithoutRepeats(rawLines, Len(rawLines))
        /\ SelectSeq(emitted, IsOtherLine) = SelectSeq(rawLines, IsOtherLine)
        /\ (wfaults = 0 => ContentOf(files, cleanFile) = FileOf(emitted))

\* C2 witness: a clean that dropped a repeated key and kept a line that is
\* neither comment, blank nor Entry
C2_Witness ==
    /\ pc = "done"
    /\ CleanReturned
    /\ wfaults = 0
    /\ Len(emitted) < Len(rawLines)
    /\ \E i \in 1..Len(emitted) :
         ~IsCommentOrBlank(emitted[i]) /\ IsOtherLine(emitted[i])

\* C5: a key is in duplicateKeys iff it occurs twice or more, and its group
\* is the whole sequence of its occurrences in line order (during the scan:
\* of the lines read so far).
C5_DuplicateGroupsComplete ==
    (Scanning \/ Analyzed) =>
        /\ DOMAIN duplicateKeys =
             {k \in KeysOf(rawLines) : Len(Occurrences(rawLines, k)) >= 2}
        /\ \A k \in DOMAIN duplicateKeys :
             /\ duplicateKeys[k] = Occurrences(rawLines, k)
             /\ \A i \in 1..(Len(duplicateKeys[k]) - 1) :
                  duplicateKeys[k][i].LineNum < duplicateKeys[k][i + 1].LineNum

\* C5 witness: a key seen three times, with two values
C5_Witness ==
    /\ pc = "report"
    /\ \E k \in DOMAIN duplicateKeys :
         /\ Len(duplicateKeys[k]) = 3
         /\ duplicateKeys[k][3].Value # duplicateKeys[k][1].Value

\* C6: uniqueEntries has one entry per distinct key seen, the occurrence with
\* the smallest line number, with that occurrence's value.
C6_FirstOccurrenceKept ==
    (Scanning \/ Analyzed) =>
        /\ DOMAIN uniqueEntries = KeysOf(rawLines)
        /\ \A k \in DOMAIN uniqueEntries :
             /\ uniqueEntries[k] = Occurrences(rawLines, k)[1]
             /\ \A i \in 1..Len(Occurrences(rawLines, k)) :
                  uniqueEntries[k].LineNum <= Occurrences(rawLines, k)[i].LineNum

\* C6 witness: a key seen again, later, with another value
C6_Witness ==
    /\ pc = "report"
    /\ \E k \in DOMAIN duplicateKeys :
         /\ duplicateKeys[k][2].Value # uniqueEntries[k].Value
         /\ uniqueEntries[k].LineNum = 2

\* the files main itself writes the report to
OutputFiles == IF outputFile # <<>> THEN {Abs(outputFile)} ELSE {}

\* main refused the clean path
Rejected == pc = "exit" /\ suggestedName # <<>>

\* the name with -cleaned put before its extension
WithCleanedSuffix(name) ==
    LET d == LastIndex(name, DOT)
    IN IF d > 0
       THEN SubSeq(name, 1, d - 1) \o CleanedSuffix \o SubSeq(name, d, Len(name))
       ELSE name \o CleanedSuffix

\* the suggestion names another file, in the input's directory, called as the
\* input with -cleaned before the extension
GoodSuggestion ==
    /\ Base(suggestedName) = WithCleanedSuffix(Base(inputFile))
    /\ Dir(suggestedName) = Dir(inputFile)
    /\ Clean(suggestedName) # Clean(inputFile)
    /\ Abs(suggestedName) # Abs(inputFile)

\* C3: the input file is never opened for writing, and when the run is over
\* it holds what it held when the run started.
C3_InputNeverModified ==
    /\ Abs(inputFile) \notin opened
    /\ (pc \in {"done", "exit"} =>
          ContentOf(files, inputFile) = ContentOf(startFiles, inputFile))

\* C4 as stated: at the rejection no file has been opened for writing and
\* nothing has been written, createCleanFile was not called, and the
\* suggestion is the input's name with -cleaned before the extension.
C4_RejectedBeforeAnyWrite ==
    Rejected =>
        /\ opened = {}
        /\ files = startFiles
        /\ cleanErr = "notcalled"
        /\ GoodSuggestion

\* C4 amended: a clean path that normalises to the input path never reaches
\* createCleanFile: the clean step creates no directory, opens no file and
\* writes no line, and main exits with a suggestion that is the input's name
\* with -cleaned before the extension; only the report file of -o may have
\* been created and written by then.
C4_RejectedBeforeCleanFile ==
    /\ (cleanFile # <<>> /\ Clean(cleanFile) = Clean(inputFile)) =>
          /\ pc \notin {"cleaning", "summary", "done"}
          /\ cleanErr = "notcalled"
          /\ idx = 0
          /\ emitted = <<>>
          /\ dirs = startDirs
          /\ opened \subseteq OutputFiles
          /\ \A f \in DOMAIN files \ OutputFiles :
               f \in DOMAIN startFiles /\ files[f] = startFiles[f]
          /\ (pc = "exit" /\ output # "none" /\ analyzeErr = "nil" => Rejected)
    /\ (Rejected => GoodSuggestion /\ exitCode = 1)

\* C4 witness: a rejection of a path that differs from the input path before
\* normalisation, after the report went to the file of -o
C4_Witness ==
    /\ Rejected
    /\ cleanFile # inputFile
    /\ output = "file"
    /\ Abs(outputFile) \in opened
    /\ ContentOf(files, outputFile) # <<>>

\* the content without the carriage returns that stand before a line feed
RECURSIVE WithoutCRBeforeLF(_)
WithoutCRBeforeLF(c) ==
    IF c = <<>> THEN <<>>
    ELSE IF Len(c) >= 2 /\ c[1] = CR /\ c[2] = LF
         THEN <<LF>> \o WithoutCRBeforeLF(SubSeq(c, 3, Len(c)))
         ELSE <<c[1]>> \o WithoutCRBeforeLF(Tail(c))

\* a run that cleaned the clean file of the run before, with no failed write
ReCleaned == runs = 2 /\ pc = "done" /\ CleanReturned /\ wfaults = 0

\* C7 as stated: cleaning the cleaner's output gives content identical to it.
C7_CleanIsIdempotent ==
    ReCleaned => ContentOf(files, cleanFile) = ContentOf(files, inputFile)

\* C7 amended: cleaning the cleaner's output drops no line and gives the same
\* content but for a carriage return at the end of a line, which is removed;
\* the content is identical when no line of that output ends in a carriage
\* return (no input line ended in CR CR LF).
C7_ReCleanDropsNoLine ==
    ReCleaned =>
        LET first  == ContentOf(files, inputFile)
            second == ContentOf(files, cleanFile)
        IN /\ emitted = rawLines
           /\ second = WithoutCRBeforeLF(first)
           /\ ((\A i \in 1..(Len(first) - 1) : ~(first[i] = CR /\ first[i + 1] = LF))
                 => second = first)

\* C7 witness: the first run dropped a line of three, the second run none
C7_Witness ==
    /\ ReCleaned
    /\ Abs(inputFile) # Abs(PathL)
    /\ Len(ScanLines(ContentOf(files, PathL))) = 3
    /\ Len(rawLines) = 2
    /\ ContentOf(files, cleanFile) = ContentOf(files, inputFile)

\* main has just written the report
ReportWritten == pc = "clean"

\* where the report goes
ReportSink == IF output = "file" THEN ContentOf(files, outputFile) ELSE stdout

\* C8: the report has one group per duplicate key; a group is same-value iff
\* every occurrence's value equals the first one's, conflicting iff some value
\* differs; it lists every occurrence's line number, and the values beside
\* them exactly when the group is conflicting.
C8_ReportClassifiesGroups ==
    ReportWritten =>
        /\ Len(reported) = Cardinality(DOMAIN duplicateKeys)
        /\ {reported[i].key : i \in 1..Len(reported)} = DOMAIN duplicateKeys
        /\ \A i \in 1..Len(reported) :
             LET g      == reported[i]
                 occ    == duplicateKeys[g.key]
                 differ == \E j \in 1..Len(occ) : occ[j].Value # occ[1].Value
             IN /\ g.allSame = ~differ
                /\ g.count = Len(occ)
                /\ Len(g.lines) = Len(occ)
                /\ \A j \in 1..Len(occ) :
                     /\ g.lines[j].LineNum = occ[j].LineNum
                     /\ g.lines[j].withValue = differ
                     /\ g.lines[j].Value = occ[j].Value
        /\ ReportSink = RenderReport(reported)

\* C8 witness: a group of three whose third value alone differs, reported
C8_Witness ==
    /\ pc = "clean"
    /\ \E i \in 1..Len(reported) :
         /\ reported[i].count = 3
         /\ ~reported[i].allSame
         /\ reported[i].lines[2].Value = reported[i].lines[1].Value
         /\ reported[i].lines[3].withValue

\* C9: a failed write to the clean file makes createCleanFile return an
\* error, so that main never reports the file as created.
C9_WriteFailureAborts == wfaults > 0 => ~CleanReturned

\* C10: when the file cannot be opened or the scan ends on a read error,
\* nothing is returned beside the error, and main exits with no report
\* written and no clean started.
C10_FailedAnalysisReturnsNothing ==
    analyzeErr # "nil" =>
        /\ duplicateKeys = EmptyMap
        /\ uniqueEntries = EmptyMap
        /\ rawLines = <<>>
        /\ pc = "exit"
        /\ exitCode = 1
        /\ reported = <<>>
        /\ Len(stdout) = 3 /\ stdout[1] = "Error: "
        /\ (output = "file" => ContentOf(files, outputFile) = <<>>)
        /\ cleanErr = "notcalled"
        /\ emitted = <<>>
        /\ idx = 0
        /\ dirs = startDirs
        /\ opened \subseteq OutputFiles

\* C10 witness: a read error after two lines were scanned, with -clean given
C10_Witness ==
    /\ analyzeErr = "scan"
    /\ lineNum = 2
    /\ cleanFile # <<>>
    /\ ~SamePath(cleanFile, inputFile)

\* createCleanFile has just returned nil and main has printed its two lines
JustCleaned == pc = "summary" /\ CleanReturned

\* the second line main prints after a clean that removed n entries
RemovedLine(n) == <<"Removed ">> \o Itoa(n) \o <<" duplicate key entries.", LF>>

\* the Entry lines whose key an earlier line has
RepeatPositions(lines) ==
    {i \in EntryPositions(lines) : ~IsFirstOfKey(lines, i)}

\* C11: after a clean that returned nil, the count main prints in "Removed n
\* duplicate key entries." is the number of lines read from the input that the
\* cleaner did not print, which are the Entry lines repeating an earlier key;
\* with no failed write it is the number of lines of the input less the number
\* of lines of the clean file on disk.
C11_RemovedCountIsLinesAbsent ==
    JustCleaned =>
        LET absent == Len(rawLines) - Len(emitted)
        IN /\ HasSuffix(stdout, RemovedLine(absent))
           /\ absent = Cardinality(RepeatPositions(rawLines))
           /\ (wfaults = 0 =>
                 Len(ScanLines(ContentOf(files, cleanFile)))
                   = Len(rawLines) - absent)

\* C11 witness: a clean with no failed write that left out two lines of three,
\* all of one key
C11_Witness ==
    /\ JustCleaned
    /\ wfaults = 0
    /\ Len(rawLines) = 3
    /\ Len(ScanLines(ContentOf(files, cleanFile))) = 1
    /\ Cardinality(DOMAIN duplicateKeys) = 1

\* the number of entries a map from keys to entry sequences holds
RECURSIVE SumLens(_)
SumLens(m) ==
    IF DOMAIN m = {} THEN 0
    ELSE LET k == CHOOSE x \in DOMAIN m : TRUE
         IN Len(m[k]) + SumLens([j \in DOMAIN m \ {k} |-> m[j]])

\* the line numbers the entries of such a map carry
EntryLineNums(m) ==
    UNION {{m[k][i].LineNum : i \in 1..Len(m[k])} : k \in DOMAIN m}

\* the number of semicolons of a line
Semicolons(line) == Len(SelectSeq(line, LAMBDA c : c = ";"))

\* C12: while the analyzer scans, the line counter is the number of lines in
\* rawLines, no line number stands in two entries, the occurrence sequences
\* hold together as many entries as there are Entry lines among the lines
\* read, at exactly those line numbers and under the key of that line, so
\* that a comment, blank or unrecognized line adds to rawLines and to the
\* counter only; what the analyzer returns keeps that sum (keys seen once
\* count one, duplicate groups their length); and count_keys reports as
\* totalEntries the number of Entry lines of the file, and as keyCount the
\* number of their distinct keys.
C12_EntriesMatchEntryLines ==
    /\ Scanning =>
          /\ lineNum = Len(rawLines)
          /\ SumLens(keyEntries) = Cardinality(EntryLineNums(keyEntries))
          /\ SumLens(keyEntries) = Cardinality(EntryPositions(rawLines))
          /\ EntryLineNums(keyEntries) = EntryPositions(rawLines)
          /\ \A k \in DOMAIN keyEntries : \A i \in 1..Len(keyEntries[k]) :
               /\ keyEntries[k][i].Key = k
               /\ KeyOf(rawLines[keyEntries[k][i].LineNum]) = k
    /\ Analyzed =>
          /\ lineNum = Len(rawLines)
          /\ Cardinality(DOMAIN uniqueEntries \ DOMAIN duplicateKeys)
               + SumLens(duplicateKeys)
               = Cardinality(EntryPositions(rawLines))
    /\ countErr = "nil" =>
          LET lines == ScanLines(ContentOf(files, inputFile))
          IN /\ totalEntries = Cardinality(EntryPositions(lines))
             /\ keyCount = Cardinality(KeysOf(lines))

\* C12 witness: the scan has read to the end a file of a line with two
\* patterns, a blank line, a comment holding a pattern and an unrecognized
\* line: four lines counted, one entry
C12_Witness ==
    /\ Scanning
    /\ toRead = <<>>
    /\ lineNum = 4
    /\ SumLens(keyEntries) = 1
    /\ \E i \in EntryPositions(rawLines) : Semicolons(rawLines[i]) = 2
    /\ \E i \in 1..Len(rawLines) :
         IsCommentOrBlank(rawLines[i]) /\ Semicolons(rawLines[i]) = 1
    /\ \E i \in 1..Len(rawLines) :
         ~IsCommentOrBlank(rawLines[i]) /\ IsOtherLine(rawLines[i])

\* main has entered its clean step (lines 101-118): it refused the clean
\* path, or called createCleanFile
CleanStarted ==
    \/ suggestedName # <<>>
    \/ cleanErr # "notcalled"
    \/ idx > 0

\* the clean step has failed: the destination was refused, or its directory
\* or the file could not be created, or a write to it failed
CleanFailed ==
    \/ Rejected
    \/ cleanErr \in {"mkdir", "create"}
    \/ wfaults > 0

\* the report is where main wrote it, whole: it is the content of the file of
\* -o, or it is on the terminal before anything printed later
ReportIntact ==
    IF output = "file"
    THEN ContentOf(files, outputFile) = RenderReport(reported)
    ELSE HasPrefix(stdout, RenderReport(reported))

\* C13: when main comes to its clean step the report is written in full, and
\* the clean step is entered from there only; once the clean step has failed
\* (refused destination, directory or file not created, failed write) the
\* report is still what was written; and the clean step is never entered
\* when the analysis failed.
C13_ReportSurvivesFailedClean ==
    /\ (pc = "clean" => ReportIntact)
    /\ (CleanStarted => pc \in {"cleaning", "summary", "done", "exit"})
    /\ (CleanFailed => ReportIntact)
    /\ (analyzeErr # "nil" => ~CleanStarted /\ pc = "exit")
====
